---- MODULE Spec2Model ----
(***************************************************************************)
(* Model of the Lightroom LOC string extractor of translation.py:          *)
(* extract_loc_strings, extract_complete_value, clean_value and the        *)
(* catalog writer process_lua_files.                                       *)
(* A document is a sequence of one-character strings.  Positions are the   *)
(* 0-based offsets of the Python code: At(t, i) is text[i] and             *)
(* Slice(t, a, b) is text[a:b].                                            *)
(***************************************************************************)
EXTENDS Integers, Sequences, FiniteSets, TLC

\* ------------------------------------------------------------------------
\* Characters
\* ------------------------------------------------------------------------
DQ == "\""
SQ == "'"
BS == "\\"
NL == "\n"
TAB == "\t"
CR == "\r"
SP == " "

\* the characters line 133/149/184/195 skip: ' \t\n\r'
LuaSpace == {SP, TAB, NL, CR}
\* the characters \s of re and str.strip() remove (those of the alphabet)
PyWhitespace == {SP, TAB, NL, CR}
Digits == {"0", "1", "2", "3", "4", "5", "6", "7", "8", "9"}

\* the width of the key lookahead window, text[after_quote:after_quote+500]
LookaheadLen == 500

At(t, i) == t[i + 1]
Slice(t, a, b) == SubSeq(t, a + 1, b)
Min(a, b) == IF a < b THEN a ELSE b

\* ' '.join(parts) in place of ''.join(parts)
RECURSIVE join_parts_spaced(_)
join_parts_spaced(ss) ==
    IF ss = <<>> THEN <<>>
    ELSE IF Len(ss) = 1 THEN ss[1]
    ELSE ss[1] \o <<SP>> \o join_parts_spaced(Tail(ss))

\* ''.join(parts)
RECURSIVE join_parts(_)
join_parts(ss) == IF ss = <<>> THEN <<>> ELSE Head(ss) \o join_parts(Tail(ss))

\* ------------------------------------------------------------------------
\* clean_value
\* ------------------------------------------------------------------------
\* end of the maximal digit run starting at 1-based index i
RECURSIVE DigitRunEnd(_, _)
DigitRunEnd(v, i) ==
    IF i <= Len(v) /\ v[i] \in Digits THEN DigitRunEnd(v, i + 1) ELSE i

\* the substitution with the pattern \^(\d) : one digit only
RECURSIVE replace_placeholders_one_digit(_, _)
replace_placeholders_one_digit(v, i) ==
    IF i > Len(v) THEN <<>>
    ELSE IF v[i] = "^" /\ i + 1 <= Len(v) /\ v[i + 1] \in Digits
         THEN <<"{", v[i + 1], "}">> \o replace_placeholders_one_digit(v, i + 2)
         ELSE <<v[i]>> \o replace_placeholders_one_digit(v, i + 1)

\* re.sub(r'\^(\d+)', r'{\1}', value), from 1-based index i on
RECURSIVE replace_placeholders_from(_, _)
replace_placeholders_from(v, i) ==
    IF i > Len(v) THEN <<>>
    ELSE IF v[i] = "^" /\ i + 1 <= Len(v) /\ v[i + 1] \in Digits
         THEN LET e == DigitRunEnd(v, i + 1)
              IN  <<"{">> \o SubSeq(v, i + 1, e - 1) \o <<"}">>
                     \o replace_placeholders_from(v, e)
         ELSE <<v[i]>> \o replace_placeholders_from(v, i + 1)

replace_placeholders(v) == replace_placeholders_from(v, 1)

\* value.split('\n'): cur is the line being read
RECURSIVE split_from(_, _, _)
split_from(v, i, cur) ==
    IF i > Len(v) THEN <<cur>>
    ELSE IF v[i] = NL THEN <<cur>> \o split_from(v, i + 1, <<>>)
    ELSE split_from(v, i + 1, Append(cur, v[i]))

split_lines(v) == split_from(v, 1, <<>>)

\* re.sub(r' +', ' ', line).replace('\t', ' '): runs of spaces collapse and
\* every tab becomes a space of its own
RECURSIVE collapse_from_tabs_apart(_, _)
collapse_from_tabs_apart(l, i) ==
    IF i > Len(l) THEN <<>>
    ELSE IF l[i] = SP
         THEN IF i > 1 /\ l[i - 1] = SP
              THEN collapse_from_tabs_apart(l, i + 1)
              ELSE <<SP>> \o collapse_from_tabs_apart(l, i + 1)
         ELSE IF l[i] = TAB THEN <<SP>> \o collapse_from_tabs_apart(l, i + 1)
         ELSE <<l[i]>> \o collapse_from_tabs_apart(l, i + 1)

\* re.sub(r'[ \t]+', ' ', line)
RECURSIVE collapse_from(_, _)
collapse_from(l, i) ==
    IF i > Len(l) THEN <<>>
    ELSE IF l[i] \in {SP, TAB}
         THEN IF i > 1 /\ l[i - 1] \in {SP, TAB}
              THEN collapse_from(l, i + 1)
              ELSE <<SP>> \o collapse_from(l, i + 1)
         ELSE <<l[i]>> \o collapse_from(l, i + 1)

collapse_spaces(l) == collapse_from(l, 1)

\* str.strip()
RECURSIVE lstrip(_)
lstrip(l) == IF l # <<>> /\ Head(l) \in PyWhitespace THEN lstrip(Tail(l)) ELSE l

RECURSIVE rstrip(_)
rstrip(l) ==
    IF l # <<>> /\ l[Len(l)] \in PyWhitespace
    THEN rstrip(SubSeq(l, 1, Len(l) - 1)) ELSE l

strip(l) == rstrip(lstrip(l))

\* the loop of lines 253-258
RECURSIVE cleaned_lines(_)
cleaned_lines(ls) ==
    IF ls = <<>> THEN <<>>
    ELSE LET line == strip(collapse_spaces(Head(ls)))
         IN  IF line # <<>> THEN <<line>> \o cleaned_lines(Tail(ls))
             ELSE cleaned_lines(Tail(ls))

\* '\n\n'.join(cleaned_lines): the separator is two newline characters
RECURSIVE join_lines_newlines(_)
join_lines_newlines(ls) ==
    IF ls = <<>> THEN <<>>
    ELSE IF Len(ls) = 1 THEN ls[1]
    ELSE ls[1] \o <<NL, NL>> \o join_lines_newlines(Tail(ls))

\* '\\n\\n'.join(cleaned_lines): the separator is the four characters \n\n
RECURSIVE join_lines(_)
join_lines(ls) ==
    IF ls = <<>> THEN <<>>
    ELSE IF Len(ls) = 1 THEN ls[1]
    ELSE ls[1] \o <<BS, "n", BS, "n">> \o join_lines(Tail(ls))

clean_value(value) ==
    join_lines(cleaned_lines(split_lines(replace_placeholders(value))))

format_translation(key, value) == <<DQ>> \o key \o <<"=">> \o value \o <<DQ>>

\* ------------------------------------------------------------------------
\* extract_loc_strings: call-site location and key lookahead
\* ------------------------------------------------------------------------
LOC == <<"L", "O", "C">>
KeyPrefix == <<"$", "$", "$", "/">>

\* \s* of the call-site pattern
RECURSIVE SkipRe(_, _)
SkipRe(t, p) ==
    IF p < Len(t) /\ At(t, p) \in PyWhitespace THEN SkipRe(t, p + 1) ELSE p

\* the skipping loops of lines 133, 149, 184 and 195
RECURSIVE SkipWs(_, _)
SkipWs(t, p) ==
    IF p < Len(t) /\ At(t, p) \in LuaSpace THEN SkipWs(t, p + 1) ELSE p

\* r'LOC\s*\(\s*"' matched at offset i: the offset after the quote, or -1
loc_match_end(t, i) ==
    IF i + 3 <= Len(t) /\ Slice(t, i, i + 3) = LOC
    THEN LET j == SkipRe(t, i + 3)
         IN  IF j < Len(t) /\ At(t, j) = "("
             THEN LET k == SkipRe(t, j + 1)
                  IN  IF k < Len(t) /\ At(t, k) = DQ THEN k + 1 ELSE -1
             ELSE -1
    ELSE -1

\* re.search(..., text[pos:]): after_quote of the leftmost match, or -1
RECURSIVE loc_search(_, _)
loc_search(t, p) ==
    IF p >= Len(t) THEN -1
    ELSE IF loc_match_end(t, p) # -1 THEN loc_match_end(t, p)
    ELSE loc_search(t, p + 1)

\* offset of the first '=' in [p, limit), or -1
RECURSIVE first_eq(_, _, _)
first_eq(t, p, limit) ==
    IF p >= limit THEN -1
    ELSE IF At(t, p) = "=" THEN p
    ELSE first_eq(t, p + 1, limit)

\* re.match(r'(\$\$\$/[^=]+)=', lookahead): the offset of the '=' that ends
\* the key, or -1 when the pattern does not match
key_match(t, after_quote) ==
    LET limit == Min(Len(t), after_quote + LookaheadLen)
    IN  IF after_quote + 4 <= limit
           /\ Slice(t, after_quote, after_quote + 4) = KeyPrefix
        THEN LET e == first_eq(t, after_quote + 4, limit)
             IN  IF e >= after_quote + 5 THEN e ELSE -1
        ELSE -1

\* key_match.group(0).strip() in place of group(1): the '=' stays in the key
key_of_group0(t, after_quote, e) == strip(Slice(t, after_quote, e + 1))

\* key_match.group(1).strip()
key_of(t, after_quote, e) == strip(Slice(t, after_quote, e))

\* ------------------------------------------------------------------------
\* extract_complete_value: the frame of its locals, one operator per branch
\* of one loop iteration.  pc is "main" (loop of line 86), "single" (loop of
\* line 166) or "ret" (line 227 reached).
\* ------------------------------------------------------------------------
InitFrame(start_pos) ==
    [pc |-> "main", pos |-> start_pos, chars |-> <<>>, value_parts |-> <<>>,
     single_chars |-> <<>>, should_stop |-> FALSE]

main_loop_cond(t, f) == f.pos < Len(t) /\ ~f.should_stop

main_at_escape(t, f) == At(t, f.pos) = BS /\ f.pos + 1 < Len(t)

\* lines 100-121
main_escape(t, f) ==
    LET next_char == At(t, f.pos + 1)
    IN  IF next_char = "n"
        THEN [f EXCEPT !.chars = Append(@, NL), !.pos = @ + 2]
        ELSE IF next_char = "t"
        THEN [f EXCEPT !.chars = Append(@, TAB), !.pos = @ + 2]
        ELSE IF next_char = DQ
        THEN [f EXCEPT !.chars = Append(@, DQ), !.pos = @ + 2]
        ELSE IF next_char = BS
        THEN [f EXCEPT !.chars = Append(@, BS), !.pos = @ + 2]
        ELSE [f EXCEPT !.chars = Append(@, BS), !.pos = @ + 1]

\* lines 126-128: value_parts.append(''.join(chars)) when chars is not empty
flush_chars(f) ==
    IF f.chars # <<>>
    THEN [f EXCEPT !.value_parts = Append(@, f.chars), !.chars = <<>>]
    ELSE f

\* main_after_quote with line 218 going on with the loop instead of leaving
\* it, as the single-quote branch does at line 215
main_after_quote_reads_on(t, f, p) ==
    IF p + 1 < Len(t) /\ At(t, p) = "." /\ At(t, p + 1) = "."
    THEN LET q == SkipWs(t, p + 2)
         IN  IF q >= Len(t) THEN [f EXCEPT !.pos = q, !.pc = "ret"]
             ELSE IF At(t, q) = DQ THEN [f EXCEPT !.pos = q + 1]
             ELSE IF At(t, q) = SQ
             THEN [f EXCEPT !.pos = q + 1, !.single_chars = <<>>,
                            !.pc = "single"]
             ELSE [f EXCEPT !.pos = q]
    ELSE [f EXCEPT !.pos = p, !.pc = "ret"]

\* lines 144-221, pos on the first character after the closing quote and the
\* white space behind it: what follows a closed double-quoted fragment
main_after_quote(t, f, p) ==
    IF p + 1 < Len(t) /\ At(t, p) = "." /\ At(t, p + 1) = "."
    THEN LET q == SkipWs(t, p + 2)
         IN  IF q >= Len(t) THEN [f EXCEPT !.pos = q, !.pc = "ret"]
             ELSE IF At(t, q) = DQ THEN [f EXCEPT !.pos = q + 1]
             ELSE IF At(t, q) = SQ
             THEN [f EXCEPT !.pos = q + 1, !.single_chars = <<>>,
                            !.pc = "single"]
             ELSE [f EXCEPT !.pos = q, !.pc = "ret"]
    ELSE [f EXCEPT !.pos = p, !.pc = "ret"]

\* lines 124-221
main_closing_quote(t, f) ==
    LET g == flush_chars(f)
        p == SkipWs(t, f.pos + 1)
    IN  IF p >= Len(t) THEN [g EXCEPT !.pos = p, !.pc = "ret"]
        ELSE IF At(t, p) \in {",", ")"} THEN [g EXCEPT !.pos = p, !.pc = "ret"]
        ELSE main_after_quote(t, g, p)

\* lines 222-225
main_regular(t, f) ==
    [f EXCEPT !.chars = Append(@, At(t, f.pos)), !.pos = @ + 1]

\* one iteration of the loop of line 86, or its exit
main_iteration(t, f) ==
    IF ~main_loop_cond(t, f) THEN [f EXCEPT !.pc = "ret"]
    ELSE IF main_at_escape(t, f) THEN main_escape(t, f)
    ELSE IF At(t, f.pos) = DQ THEN main_closing_quote(t, f)
    ELSE main_regular(t, f)

\* lines 167-176: the two escapes the single-quote loop resolves
single_at_escape(t, f) ==
    /\ At(t, f.pos) = BS
    /\ f.pos + 1 < Len(t)
    /\ At(t, f.pos + 1) \in {SQ, "n"}

single_escape(t, f) ==
    IF At(t, f.pos + 1) = SQ
    THEN [f EXCEPT !.single_chars = Append(@, SQ), !.pos = @ + 2]
    ELSE [f EXCEPT !.single_chars = Append(@, NL), !.pos = @ + 2]

\* lines 179-182
flush_single(f) ==
    IF f.single_chars # <<>>
    THEN [f EXCEPT !.value_parts = Append(@, f.single_chars),
                   !.single_chars = <<>>]
    ELSE f

\* lines 193-208 and 212-215, p on the first character after the closing
\* single quote and the white space behind it, which is not ',' or ')':
\* every way out of the single-quote loop but should_stop goes back to the
\* main loop (line 215)
single_after_quote(t, f, p) ==
    IF p + 1 < Len(t) /\ At(t, p) = "." /\ At(t, p + 1) = "."
    THEN LET q == SkipWs(t, p + 2)
         IN  IF q < Len(t) /\ At(t, q) = DQ
             THEN [f EXCEPT !.pos = q + 1, !.pc = "main"]
             ELSE IF q < Len(t) /\ At(t, q) = SQ
             THEN [f EXCEPT !.pos = q + 1, !.single_chars = <<>>]
             ELSE [f EXCEPT !.pos = q, !.pc = "main"]
    ELSE [f EXCEPT !.pos = p, !.pc = "main"]

\* lines 177-208 with 212-215
single_closing_quote(t, f) ==
    LET g == flush_single(f)
        p == SkipWs(t, f.pos + 1)
    IN  IF p < Len(t) /\ At(t, p) \in {",", ")"}
        THEN [g EXCEPT !.pos = p, !.should_stop = TRUE, !.pc = "ret"]
        ELSE single_after_quote(t, g, p)

\* single_regular without 'pos += 1' at line 210: the character is taken and
\* the cursor stays on it
single_regular_stays(t, f) ==
    [f EXCEPT !.single_chars = Append(@, At(t, f.pos))]

\* lines 209-210
single_regular(t, f) ==
    [f EXCEPT !.single_chars = Append(@, At(t, f.pos)), !.pos = @ + 1]

\* one iteration of the loop of line 166, or its exit (lines 212-215)
single_iteration(t, f) ==
    IF ~(f.pos < Len(t)) THEN [f EXCEPT !.pc = "main"]
    ELSE IF single_at_escape(t, f) THEN single_escape(t, f)
    ELSE IF At(t, f.pos) = SQ THEN single_closing_quote(t, f)
    ELSE single_regular(t, f)

\* finish_value without lines 228-229: the characters read since the last
\* closing quote are forgotten
finish_value_drops_rest(f) ==
    IF f.value_parts # <<>>
    THEN [is_none |-> FALSE, value |-> clean_value(join_parts(f.value_parts)),
          pos |-> f.pos]
    ELSE [is_none |-> TRUE, value |-> <<>>, pos |-> f.pos]

\* lines 227-237: the (value, pos) returned; is_none stands for None
finish_value(f) ==
    LET g == flush_chars(f)
    IN  IF g.value_parts # <<>>
        THEN [is_none |-> FALSE, value |-> clean_value(join_parts(g.value_parts)),
              pos |-> g.pos]
        ELSE [is_none |-> TRUE, value |-> <<>>, pos |-> g.pos]

RECURSIVE run_frame(_, _)
run_frame(t, f) ==
    IF f.pc = "ret" THEN f
    ELSE IF f.pc = "main" THEN run_frame(t, main_iteration(t, f))
    ELSE run_frame(t, single_iteration(t, f))

extract_complete_value(t, start_pos) ==
    finish_value(run_frame(t, InitFrame(start_pos)))

\* record_value with 'if value is not None' in place of 'if value' at line 60
record_value_not_none(res, k, value_start, r) ==
    IF ~r.is_none
    THEN [results |-> Append(res, <<k, r.value>>),
          pos |-> IF r.pos > value_start THEN r.pos ELSE value_start + 1]
    ELSE [results |-> res, pos |-> value_start + 1]

\* record_value with 'pos = value_start + 1' at line 62: after a yielded pair
\* the search resumes right behind the '=' of its call site
record_value_rescans(res, k, value_start, r) ==
    IF ~r.is_none /\ r.value # <<>>
    THEN [results |-> Append(res, <<k, r.value>>), pos |-> value_start + 1]
    ELSE [results |-> res, pos |-> value_start + 1]

\* lines 60-64: what the caller does with (value, next_pos)
record_value(res, k, value_start, r) ==
    IF ~r.is_none /\ r.value # <<>>
    THEN [results |-> Append(res, <<k, r.value>>),
          pos |-> IF r.pos > value_start THEN r.pos ELSE value_start + 1]
    ELSE [results |-> res, pos |-> value_start + 1]

\* the loop of lines 33-64 from cursor p with the pairs res found so far
RECURSIVE scan_from(_, _, _)
scan_from(t, p, res) ==
    LET after_quote == loc_search(t, p)
    IN  IF p >= Len(t) \/ after_quote = -1 THEN res
        ELSE LET e == key_match(t, after_quote)
             IN  IF e = -1 THEN scan_from(t, after_quote, res)
                 ELSE LET r == record_value(res, key_of(t, after_quote, e),
                                   e + 1, extract_complete_value(t, e + 1))
                      IN  scan_from(t, r.pos, r.results)

extract_loc_strings(t) == scan_from(t, 0, <<>>)

\* ------------------------------------------------------------------------
\* Input documents.  A document is described by the call it opens with and
\* the calls that follow it, and Render writes it out as text:
\*   open    how the first call is written: LOC(" , LOC ( " or LOC "
\*   key     the text between the opening quote and the '='
\*   eq      whether there is an '=' after the key
\*   frags   the fragments of the value chain, each with the text written
\*           between the previous fragment and its opening quote (sep), its
\*           quote character (q) and its raw content (c)
\*   closed  whether the last fragment has its closing quote
\*   tail    the text after the chain
\*   later   the simple calls LOC("key=c") written after it, one per line
\* ------------------------------------------------------------------------
MaxLen == 2
MaxFrags == 2

someVar == <<"s", "o", "m", "e", "V", "a", "r">>
Kk == KeyPrefix \o <<"k">>
Kj == KeyPrefix \o <<"j">>
Kab == KeyPrefix \o <<"a", "/", "b">>
KeySpaced == KeyPrefix \o <<"a", SP, "b">>
KeyNoPrefix == <<"t", "i", "t", "l", "e">>

Concat == <<".", ".">>
\* ways of writing the concatenation operator between two fragments
Seps == {Concat, <<SP, NL>> \o Concat \o <<TAB, CR>>}
SepPlain == <<SP>> \o Concat \o <<SP>>

\* all concatenations of at most n elements of S
RECURSIVE TokenSeqs(_, _)
TokenSeqs(S, n) ==
    IF n = 0 THEN {<<>>}
    ELSE LET shorter == TokenSeqs(S, n - 1)
         IN  shorter \cup {s \o tk : s \in shorter, tk \in S}

OpenText(o) ==
    IF o = "paren" THEN LOC \o <<"(", DQ>>
    ELSE IF o = "spaced" THEN LOC \o <<SP, "(", SP, DQ>>
    ELSE LOC \o <<SP, DQ>>

RECURSIVE FragsText(_, _)
FragsText(frags, i) ==
    IF i > Len(frags) THEN <<>>
    ELSE (IF i = 1 THEN <<>>
          ELSE <<frags[i - 1].q>> \o frags[i].sep \o <<frags[i].q>>)
         \o frags[i].c \o FragsText(frags, i + 1)

SimpleCall(k, c) == LOC \o <<"(", DQ>> \o k \o <<"=">> \o c \o <<DQ, ")">>

RECURSIVE LaterText(_)
LaterText(later) ==
    IF later = <<>> THEN <<>>
    ELSE <<NL>> \o SimpleCall(Head(later).key, Head(later).c)
            \o LaterText(Tail(later))

Render(d) ==
    OpenText(d.open) \o d.key \o (IF d.eq THEN <<"=">> ELSE <<>>)
       \o FragsText(d.frags, 1)
       \o (IF d.closed THEN <<d.frags[Len(d.frags)].q>> ELSE <<>>)
       \o d.tail \o LaterText(d.later)

Frag(sep, q, c) == [sep |-> sep, q |-> q, c |-> c]

\* one call LOC("key=text") in its three written forms
TextTokens == {<<"A">>, <<SP>>, <<TAB>>, <<"=">>}
KeyTexts == {Kk, Kab, KeyPrefix, KeySpaced, KeyNoPrefix}
SimpleDocs ==
    {[open |-> o, key |-> k, eq |-> TRUE, frags |-> <<Frag(<<>>, DQ, c)>>,
      closed |-> TRUE, tail |-> IF o = "bare" THEN <<>> ELSE <<")">>,
      later |-> <<>>] :
        o \in {"paren", "spaced", "bare"}, k \in KeyTexts,
        c \in TokenSeqs(TextTokens, MaxLen)}

\* one fragment of either quote style holding escape sequences, closed or not
EscTokens ==
    {<<"A">>, <<SP>>, <<BS, "n">>, <<BS, "t">>, <<BS, BS>>, <<BS, DQ>>,
     <<BS, SQ>>}
EscapeDocs ==
    {[open |-> "paren", key |-> Kk, eq |-> TRUE,
      frags |-> IF q = DQ THEN <<Frag(<<>>, DQ, c)>>
                ELSE <<Frag(<<>>, DQ, <<>>), Frag(SepPlain, SQ, c)>>,
      closed |-> cl, tail |-> IF cl THEN <<")">> ELSE <<>>, later |-> <<>>] :
        q \in {DQ, SQ}, cl \in BOOLEAN, c \in TokenSeqs(EscTokens, MaxLen)}

\* the chains of one first fragment and at most n more
RECURSIVE Chains(_, _, _, _, _)
Chains(First, S, Q, C, n) ==
    IF n = 0 THEN {<<Frag(<<>>, DQ, c)>> : c \in First}
    ELSE LET shorter == Chains(First, S, Q, C, n - 1)
         IN  shorter \cup {Append(ch, Frag(s, q, c)) :
                             ch \in shorter, s \in S, q \in Q, c \in C}

\* closed chains of double-quoted fragments, and of mixed quote styles
DQTexts == {<<>>, <<"A">>, <<SP>>, <<BS, "n">>, <<BS, DQ>>, <<BS, BS>>}
MixedTexts == {<<>>, <<"A">>, <<BS, BS>>, <<DQ>>, <<SQ>>}
MixedChains ==
    {ch \in Chains(MixedTexts, {SepPlain}, {DQ, SQ}, MixedTexts, MaxFrags) :
        \A i \in 1..Len(ch) : ch[i].c # <<ch[i].q>>}
ChainDocs ==
    {[open |-> "paren", key |-> Kk, eq |-> TRUE, frags |-> ch,
      closed |-> TRUE, tail |-> <<")">>, later |-> <<>>] :
        ch \in Chains(DQTexts, Seps, {DQ}, DQTexts, MaxFrags)
               \cup MixedChains}

\* chains that end on a non-literal operand, on the end of the document or
\* inside a fragment, followed by later calls
LaterCalls ==
    {<<>>, <<[key |-> Kj, c |-> <<"B">>]>>,
     <<[key |-> Kk, c |-> <<"A", SP, "B">>]>>,
     <<[key |-> Kj, c |-> <<"B">>], [key |-> Kk, c |-> <<"A", SP, "B">>]>>}
NonLiteralTail == SepPlain \o someVar \o <<")">>
Tails ==
    {[closed |-> TRUE, tail |-> NonLiteralTail],
     [closed |-> TRUE, tail |-> <<SP>> \o someVar \o <<")">>],
     [closed |-> TRUE, tail |-> <<>>],
     [closed |-> FALSE, tail |-> <<>>]}
TailDocs ==
    {[open |-> "paren", key |-> Kk, eq |-> TRUE, frags |-> ch,
      closed |-> tl.closed, tail |-> tl.tail, later |-> lt] :
        ch \in Chains({<<>>, <<"A">>}, {SepPlain}, {DQ, SQ}, {<<>>, <<"A">>},
                      MaxFrags),
        tl \in Tails, lt \in LaterCalls}

\* a first call that is not a translation call, followed by later calls
MalformedDocs ==
    {[open |-> "paren", key |-> k, eq |-> FALSE,
      frags |-> <<Frag(<<>>, DQ, <<>>)>>, closed |-> TRUE, tail |-> <<")">>,
      later |-> lt] :
        k \in {KeyPrefix \o <<"a">>, KeyNoPrefix}, lt \in LaterCalls}

\* a first call whose value is blank, followed by later calls
BlankTexts == {<<>>, <<SP>>, <<TAB>>, <<NL>>, <<BS, "n">>}
BlankDocs ==
    {[open |-> "paren", key |-> Kk, eq |-> TRUE, frags |-> ch,
      closed |-> TRUE, tail |-> <<")">>, later |-> lt] :
        ch \in Chains(BlankTexts, {SepPlain}, {DQ, SQ}, BlankTexts, 1),
        lt \in LaterCalls}

Docs == SimpleDocs \cup EscapeDocs \cup ChainDocs \cup TailDocs
           \cup MalformedDocs \cup BlankDocs

\* ------------------------------------------------------------------------
\* The scanner as a state machine: one action per iteration of each loop
\* ------------------------------------------------------------------------
VARIABLES doc, text, pos, results, pc, key, value_start, frame, cv, proc

vars == <<doc, text, pos, results, pc, key, value_start, frame, cv, proc>>

\* clean_value and process_lua_files are not running
IdleCv ==
    [pc |-> "idle", arg |-> <<>>, value |-> <<>>, lines |-> <<>>,
     cleaned_lines |-> <<>>, result |-> <<>>]
EmptyMap == [k \in {} |-> <<>>]
IdleProc ==
    [pc |-> "idle", directory |-> EmptyMap, listing |-> <<>>,
     lua_files |-> <<>>, sorted_files |-> <<>>,
     translations_by_file |-> <<>>, seen_translations |-> EmptyMap,
     output_lines |-> <<>>, group |-> 0, item |-> 0, file_text |-> <<>>]
OtherCalls == <<cv, proc>>

Init ==
    /\ doc \in Docs
    /\ text = Render(doc)
    /\ pos = 0
    /\ results = <<>>
    /\ pc = "search"
    /\ key = <<>>
    /\ value_start = 0
    /\ frame = InitFrame(0)
    /\ cv = IdleCv
    /\ proc = IdleProc

\* lines 33-37: the loop ends, or no call site is left
NoCallSite ==
    /\ pc = "search"
    /\ pos >= Len(text) \/ loc_search(text, pos) = -1
    /\ pc' = "done"
    /\ UNCHANGED <<doc, text, pos, results, key, value_start, frame>>
    /\ UNCHANGED OtherCalls

\* lines 40-49: the key pattern does not match
KeyRejected ==
    /\ pc = "search"
    /\ pos < Len(text)
    /\ loc_search(text, pos) # -1
    /\ key_match(text, loc_search(text, pos)) = -1
    /\ pos' = loc_search(text, pos)
    /\ UNCHANGED <<doc, text, results, pc, key, value_start, frame>>
    /\ UNCHANGED OtherCalls

\* lines 51-58: the key is read and extract_complete_value is entered
KeyAccepted ==
    /\ pc = "search"
    /\ pos < Len(text)
    /\ loc_search(text, pos) # -1
    /\ LET after_quote == loc_search(text, pos)
           e == key_match(text, after_quote)
       IN  /\ e # -1
           /\ key' = key_of(text, after_quote, e)
           /\ value_start' = e + 1
           /\ frame' = InitFrame(e + 1)
    /\ pc' = "value"
    /\ UNCHANGED <<doc, text, pos, results>>
    /\ UNCHANGED OtherCalls

InMain == pc = "value" /\ frame.pc = "main"
InSingle == pc = "value" /\ frame.pc = "single"
Caller == <<doc, text, pos, results, pc, key, value_start>>

MainLoopExit ==
    /\ InMain
    /\ ~main_loop_cond(text, frame)
    /\ frame' = main_iteration(text, frame)
    /\ UNCHANGED <<Caller, OtherCalls>>

MainEscape ==
    /\ InMain
    /\ main_loop_cond(text, frame)
    /\ main_at_escape(text, frame)
    /\ frame' = main_iteration(text, frame)
    /\ UNCHANGED <<Caller, OtherCalls>>

MainClosingQuote ==
    /\ InMain
    /\ main_loop_cond(text, frame)
    /\ ~main_at_escape(text, frame)
    /\ At(text, frame.pos) = DQ
    /\ frame' = main_iteration(text, frame)
    /\ UNCHANGED <<Caller, OtherCalls>>

MainRegular ==
    /\ InMain
    /\ main_loop_cond(text, frame)
    /\ ~main_at_escape(text, frame)
    /\ At(text, frame.pos) # DQ
    /\ frame' = main_iteration(text, frame)
    /\ UNCHANGED <<Caller, OtherCalls>>

SingleLoopExit ==
    /\ InSingle
    /\ frame.pos >= Len(text)
    /\ frame' = single_iteration(text, frame)
    /\ UNCHANGED <<Caller, OtherCalls>>

SingleEscape ==
    /\ InSingle
    /\ frame.pos < Len(text)
    /\ single_at_escape(text, frame)
    /\ frame' = single_iteration(text, frame)
    /\ UNCHANGED <<Caller, OtherCalls>>

SingleClosingQuote ==
    /\ InSingle
    /\ frame.pos < Len(text)
    /\ ~single_at_escape(text, frame)
    /\ At(text, frame.pos) = SQ
    /\ frame' = single_iteration(text, frame)
    /\ UNCHANGED <<Caller, OtherCalls>>

SingleRegular ==
    /\ InSingle
    /\ frame.pos < Len(text)
    /\ ~single_at_escape(text, frame)
    /\ At(text, frame.pos) # SQ
    /\ frame' = single_iteration(text, frame)
    /\ UNCHANGED <<Caller, OtherCalls>>

\* lines 227-237 and 60-64: the value is returned and recorded
ReturnValue ==
    /\ pc = "value"
    /\ frame.pc = "ret"
    /\ LET r == record_value(results, key, value_start, finish_value(frame))
       IN  /\ results' = r.results
           /\ pos' = r.pos
    /\ pc' = "search"
    /\ UNCHANGED <<doc, text, key, value_start, frame>>
    /\ UNCHANGED OtherCalls

Next ==
    \/ NoCallSite
    \/ KeyRejected
    \/ KeyAccepted
    \/ MainLoopExit
    \/ MainEscape
    \/ MainClosingQuote
    \/ MainRegular
    \/ SingleLoopExit
    \/ SingleEscape
    \/ SingleClosingQuote
    \/ SingleRegular
    \/ ReturnValue

Spec == Init /\ [][Next]_vars

Done == pc = "done"

\* ------------------------------------------------------------------------
\* clean_value, statement by statement
\* ------------------------------------------------------------------------
MaxValueLen == 4

\* raw values handed to clean_value
ValueTokens == {<<"^">>, <<"1">>, <<"A">>, <<SP>>, <<TAB>>, <<NL>>}
RawValues == TokenSeqs(ValueTokens, MaxValueLen)

\* the scanner is not running
IdleDoc ==
    [open |-> "paren", key |-> <<>>, eq |-> FALSE, frags |-> <<>>,
     closed |-> FALSE, tail |-> <<>>, later |-> <<>>]
ScannerIdle ==
    /\ doc = IdleDoc
    /\ text = <<>>
    /\ pos = 0
    /\ results = <<>>
    /\ pc = "idle"
    /\ key = <<>>
    /\ value_start = 0
    /\ frame = InitFrame(0)
Scanner == <<doc, text, pos, results, pc, key, value_start, frame>>

InitClean ==
    /\ ScannerIdle
    /\ proc = IdleProc
    /\ \E a \in RawValues :
          cv = [pc |-> "replace", arg |-> a, value |-> a, lines |-> <<>>,
                cleaned_lines |-> <<>>, result |-> <<>>]

\* line 247
ReplacePlaceholders ==
    /\ cv.pc = "replace"
    /\ cv' = [cv EXCEPT !.value = replace_placeholders(cv.value),
                        !.pc = "split"]
    /\ UNCHANGED <<Scanner, proc>>

\* lines 250-251
SplitLines ==
    /\ cv.pc = "split"
    /\ cv' = [cv EXCEPT !.lines = split_lines(cv.value),
                        !.cleaned_lines = <<>>,
                        !.pc = "loop"]
    /\ UNCHANGED <<Scanner, proc>>

\* lines 253-258, one line that is kept
KeepLine ==
    /\ cv.pc = "loop"
    /\ cv.lines # <<>>
    /\ LET line == strip(collapse_spaces(Head(cv.lines)))
       IN  /\ line # <<>>
           /\ cv' = [cv EXCEPT !.lines = Tail(cv.lines),
                               !.cleaned_lines = Append(cv.cleaned_lines, line)]
    /\ UNCHANGED <<Scanner, proc>>

\* lines 253-257, one line that is empty once stripped
DropLine ==
    /\ cv.pc = "loop"
    /\ cv.lines # <<>>
    /\ strip(collapse_spaces(Head(cv.lines))) = <<>>
    /\ cv' = [cv EXCEPT !.lines = Tail(cv.lines)]
    /\ UNCHANGED <<Scanner, proc>>

\* lines 261-269: the join and the return
JoinLines ==
    /\ cv.pc = "loop"
    /\ cv.lines = <<>>
    /\ cv' = [cv EXCEPT !.result = join_lines(cv.cleaned_lines),
                        !.pc = "done"]
    /\ UNCHANGED <<Scanner, proc>>

NextClean ==
    \/ ReplacePlaceholders
    \/ SplitLines
    \/ KeepLine
    \/ DropLine
    \/ JoinLines

SpecClean == InitClean /\ [][NextClean]_vars

Cleaned == cv.pc = "done"

\* the statements of clean_value compute clean_value
CleanAgrees == Cleaned => cv.result = clean_value(cv.arg)

\* ------------------------------------------------------------------------
\* process_lua_files
\* ------------------------------------------------------------------------
MaxFiles == 2

\* ord() of the characters of the file names
Ord(c) ==
    CASE c = "." -> 46 [] c = "A" -> 65 [] c = "B" -> 66 [] c = "L" -> 76
      [] c = "U" -> 85 [] c = "a" -> 97 [] c = "b" -> 98 [] c = "c" -> 99
      [] c = "l" -> 108 [] c = "t" -> 116 [] c = "u" -> 117 [] c = "x" -> 120

\* str.lower()
LowerChar(c) ==
    CASE c = "A" -> "a" [] c = "B" -> "b" [] c = "L" -> "l" [] c = "U" -> "u"
      [] OTHER -> c
lower(f) == [i \in 1..Len(f) |-> LowerChar(f[i])]

\* str.endswith()
endswith(f, suffix) ==
    /\ Len(f) >= Len(suffix)
    /\ SubSeq(f, Len(f) - Len(suffix) + 1, Len(f)) = suffix

DotLua == <<".", "l", "u", "a">>
is_lua(f) == endswith(lower(f), DotLua)

\* the order of str, by code point
RECURSIVE str_less(_, _)
str_less(a, b) ==
    IF b = <<>> THEN FALSE
    ELSE IF a = <<>> THEN TRUE
    ELSE IF Head(a) # Head(b) THEN Ord(Head(a)) < Ord(Head(b))
    ELSE str_less(Tail(a), Tail(b))

RECURSIVE insert_sorted(_, _)
insert_sorted(f, fs) ==
    IF fs = <<>> THEN <<f>>
    ELSE IF str_less(f, Head(fs)) THEN <<f>> \o fs
    ELSE <<Head(fs)>> \o insert_sorted(f, Tail(fs))

\* the files in the order os.listdir gave them
unsorted(fs) == fs

\* sorted()
RECURSIVE sorted(_)
sorted(fs) ==
    IF fs = <<>> THEN <<>> ELSE insert_sorted(Head(fs), sorted(Tail(fs)))

\* "\n".join(output_lines)
RECURSIVE join_output(_)
join_output(ls) ==
    IF ls = <<>> THEN <<>>
    ELSE IF Len(ls) = 1 THEN ls[1]
    ELSE ls[1] \o <<NL>> \o join_output(Tail(ls))

HeaderPrefix == <<"#", SP>>
DuplicatePrefix ==
    <<"#", SP, "D", "U", "P", "L", "I", "C", "A", "T", "E", ":", SP>>
ConflictPrefix ==
    <<"#", SP, "C", "O", "N", "F", "L", "I", "C", "T", ":", SP>>
PreviousPrefix ==
    <<"#", SP, "P", "R", "E", "V", "I", "O", "U", "S", ":", SP>>

\* the entries of the current directory
FileNames ==
    {<<"a", ".", "l", "u", "a">>, <<"B", ".", "l", "u", "a">>,
     <<"b", ".", "L", "U", "A">>, <<"c", ".", "t", "x", "t">>}

\* what a file holds: a sequence of calls, one per line
KeyNewline == KeyPrefix \o <<"a", NL, "b">>
FileSources ==
    {<<>>,
     <<[key |-> Kk, c |-> <<SP>>]>>,
     <<[key |-> Kk, c |-> <<"A">>]>>,
     <<[key |-> Kk, c |-> <<"B">>]>>,
     <<[key |-> Kk, c |-> <<"A">>], [key |-> Kk, c |-> <<"A">>]>>,
     <<[key |-> Kj, c |-> <<"A", BS, "n", "B">>], [key |-> Kk, c |-> <<"B">>]>>,
     <<[key |-> Kk, c |-> <<"A">>], [key |-> Kk, c |-> <<"B">>],
       [key |-> Kk, c |-> <<"A">>]>>,
     <<[key |-> Kk, c |-> <<"A">>], [key |-> Kk, c |-> <<"B">>],
       [key |-> Kk, c |-> <<"B">>]>>,
     <<[key |-> KeyNewline, c |-> <<"A">>]>>}
\* a text that holds a key and a value but no call of LOC
NoCallText ==
    <<"r", "e", "t", "u", "r", "n", SP, DQ>> \o Kk \o <<"=", "A", DQ, NL>>

\* the entries: files that can be read, and one that open() refuses
Files ==
    {[readable |-> TRUE, prologue |-> <<>>, calls |-> s] : s \in FileSources}
       \cup {[readable |-> TRUE, prologue |-> NoCallText, calls |-> <<>>],
             [readable |-> FALSE, prologue |-> <<>>,
              calls |-> <<[key |-> Kj, c |-> <<"A">>]>>]}
\* f.read()
Content(file) == file.prologue \o LaterText(file.calls)

Directories ==
    UNION {[S -> Files] :
              S \in {T \in SUBSET FileNames : Cardinality(T) <= MaxFiles}}

\* os.listdir() returns the entries in any order
RECURSIVE Listings(_)
Listings(S) ==
    IF S = {} THEN {<<>>}
    ELSE UNION {{<<f>> \o l : l \in Listings(S \ {f})} : f \in S}

InitCatalog ==
    /\ ScannerIdle
    /\ cv = IdleCv
    /\ \E d \in Directories : \E l \in Listings(DOMAIN d) :
          proc = [IdleProc EXCEPT !.pc = "list", !.directory = d,
                                  !.listing = l]

\* lines 286-289
ListFiles ==
    /\ proc.pc = "list"
    /\ proc' = [proc EXCEPT
                  !.seen_translations = EmptyMap,
                  !.translations_by_file = <<>>,
                  !.lua_files = SelectSeq(proc.listing, is_lua),
                  !.sorted_files = sorted(SelectSeq(proc.listing, is_lua)),
                  !.pc = "scan"]
    /\ UNCHANGED <<Scanner, cv>>

\* open() raises outside any try: the run ends with the error
ScanFileFails_propagates ==
    /\ proc.pc = "scan"
    /\ proc.sorted_files # <<>>
    /\ ~proc.directory[Head(proc.sorted_files)].readable
    /\ proc' = [proc EXCEPT !.pc = "raised"]
    /\ UNCHANGED <<Scanner, cv>>

\* lines 293-298 and 306-307: open() raises, the error is printed
ScanFileFails ==
    /\ proc.pc = "scan"
    /\ proc.sorted_files # <<>>
    /\ ~proc.directory[Head(proc.sorted_files)].readable
    /\ proc' = [proc EXCEPT !.sorted_files = Tail(proc.sorted_files)]
    /\ UNCHANGED <<Scanner, cv>>

\* lines 293-304: one file is read and scanned
ScanFile ==
    /\ proc.pc = "scan"
    /\ proc.sorted_files # <<>>
    /\ proc.directory[Head(proc.sorted_files)].readable
    /\ LET filename == Head(proc.sorted_files)
           content == Content(proc.directory[filename])
           matches == extract_loc_strings(content)
       IN  proc' = [proc EXCEPT
                      !.sorted_files = Tail(proc.sorted_files),
                      !.translations_by_file =
                          IF matches # <<>>
                          THEN Append(@, [filename |-> filename,
                                          translations |-> matches])
                          ELSE @]
    /\ UNCHANGED <<Scanner, cv>>

\* the test of line 309 without its return: an empty file is written
NothingFound_writes ==
    /\ proc.pc = "scan"
    /\ proc.sorted_files = <<>>
    /\ proc.translations_by_file = <<>>
    /\ proc' = [proc EXCEPT !.output_lines = <<>>, !.file_text = <<>>,
                            !.pc = "written"]
    /\ UNCHANGED <<Scanner, cv>>

\* lines 309-311
NothingFound ==
    /\ proc.pc = "scan"
    /\ proc.sorted_files = <<>>
    /\ proc.translations_by_file = <<>>
    /\ proc' = [proc EXCEPT !.pc = "returned"]
    /\ UNCHANGED <<Scanner, cv>>

\* lines 313-315
StartOutput ==
    /\ proc.pc = "scan"
    /\ proc.sorted_files = <<>>
    /\ proc.translations_by_file # <<>>
    /\ proc' = [proc EXCEPT !.output_lines = <<>>, !.group = 1,
                            !.pc = "group"]
    /\ UNCHANGED <<Scanner, cv>>

\* lines 317-318
EmitHeader ==
    /\ proc.pc = "group"
    /\ proc.group <= Len(proc.translations_by_file)
    /\ LET filename == proc.translations_by_file[proc.group].filename
       IN  proc' = [proc EXCEPT
                      !.output_lines = Append(@, HeaderPrefix \o filename),
                      !.item = 1,
                      !.pc = "records"]
    /\ UNCHANGED <<Scanner, cv>>

InRecords ==
    /\ proc.pc = "records"
    /\ proc.item <= Len(proc.translations_by_file[proc.group].translations)
CurrentPair == proc.translations_by_file[proc.group].translations[proc.item]

\* lines 320-321 and 329-331: a key not seen before
EmitLive ==
    /\ InRecords
    /\ LET k == CurrentPair[1]
           v == CurrentPair[2]
           line == format_translation(k, v)
       IN  /\ k \notin DOMAIN proc.seen_translations
           /\ proc' = [proc EXCEPT
                         !.output_lines = Append(@, line),
                         !.seen_translations = (k :> v) @@ @,
                         !.item = @ + 1]
    /\ UNCHANGED <<Scanner, cv>>

\* the duplicate branch appending nothing
EmitDuplicate_silent ==
    /\ InRecords
    /\ LET k == CurrentPair[1]
           v == CurrentPair[2]
       IN  /\ k \in DOMAIN proc.seen_translations
           /\ proc.seen_translations[k] = v
           /\ proc' = [proc EXCEPT !.item = @ + 1]
    /\ UNCHANGED <<Scanner, cv>>

\* the duplicate branch appending the line itself
EmitDuplicate_live ==
    /\ InRecords
    /\ LET k == CurrentPair[1]
           v == CurrentPair[2]
           line == format_translation(k, v)
       IN  /\ k \in DOMAIN proc.seen_translations
           /\ proc.seen_translations[k] = v
           /\ proc' = [proc EXCEPT
                         !.output_lines = Append(@, line),
                         !.item = @ + 1]
    /\ UNCHANGED <<Scanner, cv>>

\* lines 320-325: a key seen before with the same value
EmitDuplicate ==
    /\ InRecords
    /\ LET k == CurrentPair[1]
           v == CurrentPair[2]
           line == format_translation(k, v)
       IN  /\ k \in DOMAIN proc.seen_translations
           /\ proc.seen_translations[k] = v
           /\ proc' = [proc EXCEPT
                         !.output_lines = Append(@, DuplicatePrefix \o line),
                         !.item = @ + 1]
    /\ UNCHANGED <<Scanner, cv>>

\* the conflict branch with 'del seen_translations[key]' added
EmitConflict_forgets ==
    /\ InRecords
    /\ LET k == CurrentPair[1]
           v == CurrentPair[2]
           line == format_translation(k, v)
       IN  /\ k \in DOMAIN proc.seen_translations
           /\ proc.seen_translations[k] # v
           /\ proc' = [proc EXCEPT
                         !.output_lines =
                             @ \o <<ConflictPrefix \o line,
                                    PreviousPrefix \o format_translation(
                                        k, proc.seen_translations[k])>>,
                         !.seen_translations =
                             [j \in DOMAIN @ \ {k} |-> @[j]],
                         !.item = @ + 1]
    /\ UNCHANGED <<Scanner, cv>>

\* the conflict branch with 'seen_translations[key] = value' added
EmitConflict_last_wins ==
    /\ InRecords
    /\ LET k == CurrentPair[1]
           v == CurrentPair[2]
           line == format_translation(k, v)
       IN  /\ k \in DOMAIN proc.seen_translations
           /\ proc.seen_translations[k] # v
           /\ proc' = [proc EXCEPT
                         !.output_lines =
                             @ \o <<ConflictPrefix \o line,
                                    PreviousPrefix \o format_translation(
                                        k, proc.seen_translations[k])>>,
                         !.seen_translations = [@ EXCEPT ![k] = v],
                         !.item = @ + 1]
    /\ UNCHANGED <<Scanner, cv>>

\* the conflict branch appending one line, the previous value in parentheses
EmitConflict_one_line ==
    /\ InRecords
    /\ LET k == CurrentPair[1]
           v == CurrentPair[2]
           line == format_translation(k, v)
       IN  /\ k \in DOMAIN proc.seen_translations
           /\ proc.seen_translations[k] # v
           /\ proc' = [proc EXCEPT
                         !.output_lines =
                             Append(@, ConflictPrefix \o line
                                \o <<SP, "(", "p", "r", "e", "v", "i", "o",
                                      "u", "s", ":", SP>>
                                \o proc.seen_translations[k] \o <<")">>),
                         !.item = @ + 1]
    /\ UNCHANGED <<Scanner, cv>>

\* lines 320-328: a key seen before with another value
EmitConflict ==
    /\ InRecords
    /\ LET k == CurrentPair[1]
           v == CurrentPair[2]
           line == format_translation(k, v)
       IN  /\ k \in DOMAIN proc.seen_translations
           /\ proc.seen_translations[k] # v
           /\ proc' = [proc EXCEPT
                         !.output_lines =
                             @ \o <<ConflictPrefix \o line,
                                    PreviousPrefix \o format_translation(
                                        k, proc.seen_translations[k])>>,
                         !.item = @ + 1]
    /\ UNCHANGED <<Scanner, cv>>

\* line 333
EmitBlank ==
    /\ proc.pc = "records"
    /\ proc.item > Len(proc.translations_by_file[proc.group].translations)
    /\ proc' = [proc EXCEPT !.output_lines = Append(@, <<>>),
                            !.group = @ + 1,
                            !.pc = "group"]
    /\ UNCHANGED <<Scanner, cv>>

\* lines 335-336
WriteFile ==
    /\ proc.pc = "group"
    /\ proc.group > Len(proc.translations_by_file)
    /\ proc' = [proc EXCEPT !.file_text = join_output(proc.output_lines),
                            !.pc = "written"]
    /\ UNCHANGED <<Scanner, cv>>

NextCatalog ==
    \/ ListFiles
    \/ ScanFile
    \/ ScanFileFails
    \/ NothingFound
    \/ StartOutput
    \/ EmitHeader
    \/ EmitLive
    \/ EmitDuplicate
    \/ EmitConflict
    \/ EmitBlank
    \/ WriteFile

SpecCatalog == InitCatalog /\ [][NextCatalog]_vars

Written == proc.pc = "written"

\* the stepwise scan computes extract_loc_strings
ScanAgrees == Done => results = extract_loc_strings(text)

\* ------------------------------------------------------------------------
\* What the claims say about a document, read off its description
\* ------------------------------------------------------------------------
RECURSIVE ChainContent(_)
ChainContent(frags) ==
    IF frags = <<>> THEN <<>> ELSE Head(frags).c \o ChainContent(Tail(frags))

Has(s, C) == \E i \in 1..Len(s) : s[i] \in C

\* escape resolution as the specification states it
RECURSIVE Resolve(_)
Resolve(c) ==
    IF c = <<>> THEN <<>>
    ELSE IF c[1] = BS /\ Len(c) >= 2 /\ c[2] \in {"n", "t", DQ, SQ, BS}
         THEN <<CASE c[2] = "n" -> NL [] c[2] = "t" -> TAB
                  [] OTHER -> c[2]>> \o Resolve(SubSeq(c, 3, Len(c)))
         ELSE <<c[1]>> \o Resolve(Tail(c))

\* a key as the specification describes it
KeyShaped(k) ==
    /\ Len(k) >= 4
    /\ SubSeq(k, 1, 4) = KeyPrefix
    /\ ~Has(k, PyWhitespace \cup {"="})

\* a key with a name after $$$/
KeyNamed(k) == KeyShaped(k) /\ Len(k) > 4

\* the pairs of the later calls, in order
LaterPairs(later) ==
    [i \in 1..Len(later) |-> <<later[i].key, clean_value(later[i].c)>>]

\* the pair of a call with value v: none when v is empty
PairIfAny(k, v) == IF v = <<>> THEN <<>> ELSE << <<k, v>> >>

AllQuoted(frags, q) == \A i \in 1..Len(frags) : frags[i].q = q
NoBackslash(frags) == \A i \in 1..Len(frags) : ~Has(frags[i].c, {BS})
LastFrag(d) == d.frags[Len(d.frags)]

\* LOC("K=T") and nothing else, written with the given opener
OneCall(d, o) ==
    /\ d.open = o
    /\ d.eq
    /\ Len(d.frags) = 1
    /\ d.closed
    /\ d.tail = (IF o = "bare" THEN <<>> ELSE <<")">>)
    /\ d.later = <<>>

\* a value chain of closed literals ended by ')'
ClosedChain(d) ==
    /\ d.open = "paren"
    /\ d.eq
    /\ KeyNamed(d.key)
    /\ d.closed
    /\ d.tail = <<")">>
    /\ d.later = <<>>

\* no leading, trailing or doubled white space
NoRedundantSpace(v) ==
    /\ v # <<>>
    /\ v[1] # SP
    /\ v[Len(v)] # SP
    /\ ~Has(v, {TAB, NL, CR})
    /\ \A i \in 1..(Len(v) - 1) : ~(v[i] = SP /\ v[i + 1] = SP)

\* C1 as stated: scanning LOC("K=T"), K beginning with $$$/ and free of
\* white space and '=', T not empty and free of quotes, backslashes, newlines
\* and '^', returns exactly [(K, normalize(T))].
C1_WellFormedCall ==
    (Done /\ OneCall(doc, "paren") /\ KeyShaped(doc.key)
          /\ doc.frags[1].c # <<>>
          /\ ~Has(doc.frags[1].c, {DQ, SQ, BS, NL, "^"}))
       => results = << <<doc.key, clean_value(doc.frags[1].c)>> >>

\* C1 amended: the same when K has at least one character after $$$/ and
\* normalize(T) is not empty; and for T without redundant white space the
\* pair is exactly (K, T).
C1_WellFormedCallAmended ==
    (Done /\ OneCall(doc, "paren") /\ KeyShaped(doc.key)
          /\ KeyNamed(doc.key)
          /\ clean_value(doc.frags[1].c) # <<>>
          /\ ~Has(doc.frags[1].c, {DQ, SQ, BS, NL, "^"}))
       => /\ results = << <<doc.key, clean_value(doc.frags[1].c)>> >>
          /\ NoRedundantSpace(doc.frags[1].c)
                => results = << <<doc.key, doc.frags[1].c>> >>

C1_Witness ==
    /\ Done
    /\ OneCall(doc, "paren")
    /\ doc.key = Kab
    /\ doc.frags[1].c = <<"A", TAB>>
    /\ results = << <<Kab, <<"A">>>> >>

\* C2: when '..' after a closed fragment, double- or single-quoted, is
\* followed by a token that is not a quote, extraction stops there and the
\* value is the normalized concatenation of the fragments before it.
C2_TruncationBoundary ==
    (Done /\ doc.open = "paren" /\ doc.eq /\ KeyShaped(doc.key)
          /\ doc.closed /\ doc.tail = NonLiteralTail /\ doc.later = <<>>
          /\ NoBackslash(doc.frags))
       => results = PairIfAny(doc.key, clean_value(ChainContent(doc.frags)))

Accumulated(d) ==
    IF LastFrag(d).q = SQ
    THEN ChainContent(SubSeq(d.frags, 1, Len(d.frags) - 1))
    ELSE ChainContent(d.frags)

C4_MalformedSkipped ==
    (Done /\ doc.open = "paren" /\ ~doc.eq /\ doc.closed
          /\ doc.tail = <<")">>)
       => results = LaterPairs(doc.later)

\* C5: after a call truncated at a non-literal operand the result is the
\* pair of the truncated call followed by the pairs of all later calls, in
\* order.
C5_ScanContinuesAfterTruncation ==
    (Done /\ doc.open = "paren" /\ doc.eq /\ KeyShaped(doc.key)
          /\ AllQuoted(doc.frags, DQ) /\ doc.closed
          /\ doc.tail = NonLiteralTail)
       => results = PairIfAny(doc.key, clean_value(ChainContent(doc.frags)))
                       \o LaterPairs(doc.later)

C5_Witness ==
    /\ Done
    /\ doc.frags = <<Frag(<<>>, DQ, <<>>), Frag(SepPlain, DQ, <<"A">>)>>
    /\ doc.closed
    /\ doc.tail = NonLiteralTail
    /\ Len(doc.later) = 2
    /\ results = << <<Kk, <<"A">>>>, <<Kj, <<"B">>>>,
                    <<Kk, <<"A", SP, "B">>>> >>

\* C6: a chain of double-quoted fragments, however '..' is spaced, yields
\* what the single literal holding the concatenation of the fragments
\* yields.
C6_ConcatenationIsOneLiteral ==
    (Done /\ ClosedChain(doc) /\ AllQuoted(doc.frags, DQ))
       => results =
            extract_loc_strings(SimpleCall(doc.key, ChainContent(doc.frags)))

C6_Witness ==
    /\ Done
    /\ ClosedChain(doc)
    /\ AllQuoted(doc.frags, DQ)
    /\ Len(doc.frags) = 3
    /\ Has(doc.frags[2].sep, {NL})
    /\ doc.frags[1].c = <<"A">>
    /\ doc.frags[2].c = <<BS, "n">>
    /\ doc.frags[3].c = <<"A">>
    /\ results = << <<Kk, <<"A", BS, "n", BS, "n", "A">>>> >>

\* C7: a chain mixing quote styles yields the concatenation of all its
\* fragment contents, each fragment ending at the unescaped occurrence of
\* its own quote; the other quote character and an escaped backslash are
\* ordinary content.
C7_MixedQuotes ==
    (Done /\ ClosedChain(doc)
          /\ \A i \in 1..Len(doc.frags) :
                doc.frags[i].c \in MixedTexts \ {<<doc.frags[i].q>>})
       => results = PairIfAny(doc.key,
                       clean_value(Resolve(ChainContent(doc.frags))))

\* C8: every escape sequence of a fragment, whichever quote opened it, is
\* resolved: the value of a one-fragment call is its resolved content.
C8_EscapeResolution ==
    (Done /\ ClosedChain(doc)
          /\ \/ Len(doc.frags) = 1
             \/ Len(doc.frags) = 2 /\ doc.frags[1].c = <<>>)
       => results = PairIfAny(doc.key,
                       clean_value(Resolve(ChainContent(doc.frags))))

\* C9: every yielded key begins with $$$/ and holds no white space and no
\* '='; a call whose key text is not of that shape yields nothing.
C9_KeyShape ==
    /\ \A i \in 1..Len(results) : KeyShaped(results[i][1])
    /\ (Done /\ OneCall(doc, "paren") /\ ~KeyShaped(doc.key))
          => results = <<>>

\* C10: the parenthesised form and the shorthand form of a call both yield
\* its pair.
C10_BothForms ==
    (Done /\ (OneCall(doc, "paren") \/ OneCall(doc, "bare"))
          /\ doc.key = Kk /\ doc.frags[1].c = <<"A">>)
       => results = << <<Kk, <<"A">>>> >>

\* C11: a call whose assembled value is blank (no content, or only spaces,
\* tabs and newlines) yields no pair, and every later call is still yielded.
C11_BlankValueSkipped ==
    (Done /\ doc.open = "paren" /\ doc.eq /\ KeyNamed(doc.key)
          /\ doc.closed /\ doc.tail = <<")">>
          /\ \A i \in 1..Len(doc.frags) : doc.frags[i].c \in BlankTexts)
       => results = LaterPairs(doc.later)

C11_Witness ==
    /\ Done
    /\ doc.closed
    /\ doc.tail = <<")">>
    /\ Len(doc.frags) = 2
    /\ doc.frags[1].c = <<SP>>
    /\ doc.frags[2].c = <<BS, "n">>
    /\ Len(doc.later) = 2
    /\ results = << <<Kj, <<"B">>>>, <<Kk, <<"A", SP, "B">>>> >>

\* the placeholder rewrite read left to right: inrun says that a '{' is open
RECURSIVE Rewritten(_, _, _)
Rewritten(v, i, inrun) ==
    IF i > Len(v) THEN IF inrun THEN <<"}">> ELSE <<>>
    ELSE IF inrun /\ v[i] \in Digits THEN <<v[i]>> \o Rewritten(v, i + 1, TRUE)
    ELSE LET close == IF inrun THEN <<"}">> ELSE <<>>
         IN  IF v[i] = "^" /\ i < Len(v) /\ v[i + 1] \in Digits
             THEN close \o <<"{">> \o Rewritten(v, i + 1, TRUE)
             ELSE close \o <<v[i]>> \o Rewritten(v, i + 1, FALSE)

\* C12: after line 247 every '^' followed by a maximal digit run N has become
\* '{N}' and every other '^' is unchanged; the returned value holds no '^'
\* immediately followed by a digit.
C12_PlaceholderRewrite ==
    /\ cv.pc \in {"split", "loop", "done"}
          => cv.value = Rewritten(cv.arg, 1, FALSE)
    /\ Cleaned
          => \A i \in 1..Len(cv.result) :
                cv.result[i] = "^"
                   => i = Len(cv.result) \/ cv.result[i + 1] \notin Digits

C12_Witness ==
    /\ Cleaned
    /\ cv.arg = <<"^", "^", "1", "1">>
    /\ cv.result = <<"^", "{", "1", "1", "}">>

\* the paragraphs of v read left to right: sp and br say that spaces or tabs,
\* or a line break, lie between the text already in out and position i
RECURSIVE Paragraphs(_, _, _, _, _)
Paragraphs(v, i, out, sp, br) ==
    IF i > Len(v) THEN out
    ELSE IF v[i] = NL THEN Paragraphs(v, i + 1, out, FALSE, br \/ out # <<>>)
    ELSE IF v[i] \in {SP, TAB} THEN Paragraphs(v, i + 1, out, TRUE, br)
    ELSE LET sep == IF out = <<>> THEN <<>>
                    ELSE IF br THEN <<BS, "n", BS, "n">>
                    ELSE IF sp THEN <<SP>>
                    ELSE <<>>
         IN  Paragraphs(v, i + 1, out \o sep \o <<v[i]>>, FALSE, FALSE)

\* C13: the returned value is the non-empty lines of the value, each trimmed
\* and with every run of spaces and tabs collapsed to one space, joined by
\* the four characters \n\n; it holds no newline character, no tab, no
\* leading or trailing space and no two spaces in a row.
C13_ParagraphJoin ==
    Cleaned =>
       /\ cv.result = Paragraphs(cv.value, 1, <<>>, FALSE, FALSE)
       /\ ~Has(cv.result, {NL, TAB})
       /\ cv.result # <<>>
             => Head(cv.result) # SP /\ cv.result[Len(cv.result)] # SP
       /\ \A i \in 1..(Len(cv.result) - 1) :
             ~(cv.result[i] = SP /\ cv.result[i + 1] = SP)

C13_Witness ==
    /\ Cleaned
    /\ cv.arg = <<"A", TAB, NL, "A">>
    /\ cv.result = <<"A", BS, "n", BS, "n", "A">>

\* ------------------------------------------------------------------------
\* the catalog
\* ------------------------------------------------------------------------
\* the (key, value, file) triples of the first g groups
RECURSIVE TriplesOf(_, _)
TriplesOf(tbf, g) ==
    IF g = 0 THEN <<>>
    ELSE TriplesOf(tbf, g - 1) \o
         [i \in 1..Len(tbf[g].translations) |->
             [key |-> tbf[g].translations[i][1],
              value |-> tbf[g].translations[i][2],
              file |-> tbf[g].filename]]

\* the triples recorded so far, in the order they were recorded
Recorded ==
    LET tbf == proc.translations_by_file
    IN  IF proc.pc = "records"
        THEN SubSeq(TriplesOf(tbf, proc.group), 1,
                    Len(TriplesOf(tbf, proc.group - 1)) + proc.item - 1)
        ELSE IF proc.pc \in {"group", "written"}
        THEN TriplesOf(tbf, proc.group - 1)
        ELSE <<>>

KeysOf(ts) == {ts[i].key : i \in 1..Len(ts)}
FirstValue(k, ts) ==
    ts[CHOOSE i \in 1..Len(ts) :
          ts[i].key = k /\ \A j \in 1..(i - 1) : ts[j].key # k].value
IsLive(line) == line # <<>> /\ Head(line) = DQ
StartsWith(line, prefix) ==
    Len(line) >= Len(prefix) /\ SubSeq(line, 1, Len(prefix)) = prefix
LiveLinesOf(k, v) ==
    {i \in 1..Len(proc.output_lines) :
        proc.output_lines[i] = format_translation(k, v)}

\* a step that records one pair, and the lines it adds
RecordStep == proc.pc = "records" /\ proc'.pc = "records"
NewLines ==
    SubSeq(proc'.output_lines, Len(proc.output_lines) + 1,
           Len(proc'.output_lines))

FirstSeenIsKept ==
    /\ DOMAIN proc.seen_translations = KeysOf(Recorded)
    /\ \A k \in KeysOf(Recorded) :
          /\ proc.seen_translations[k] = FirstValue(k, Recorded)
          /\ Cardinality(LiveLinesOf(k, FirstValue(k, Recorded))) = 1
    /\ \A i \in 1..Len(proc.output_lines) :
          IsLive(proc.output_lines[i])
             => \E k \in KeysOf(Recorded) :
                   i \in LiveLinesOf(k, FirstValue(k, Recorded))

LiveOnlyAtFirstOccurrence ==
    RecordStep =>
       IF CurrentPair[1] \in KeysOf(Recorded)
       THEN \A i \in 1..Len(NewLines) : ~IsLive(NewLines[i])
       ELSE NewLines = <<format_translation(CurrentPair[1], CurrentPair[2])>>

EntriesNeverChange ==
    \A k \in DOMAIN proc.seen_translations :
       /\ k \in DOMAIN proc'.seen_translations
       /\ proc'.seen_translations[k] = proc.seen_translations[k]

\* C14: whatever triples have been recorded, the mapping holds for each key
\* the value of its first occurrence and the catalog holds exactly one live
\* line for the key; that line is written when the key first occurs, and no
\* step changes or removes an entry of the mapping.
C14_FirstSeenWins ==
    /\ []FirstSeenIsKept
    /\ [][LiveOnlyAtFirstOccurrence /\ EntriesNeverChange]_vars

C14_Witness ==
    /\ Written
    /\ Len(proc.translations_by_file) = 2
    /\ Len(Recorded) = 4
    /\ \A i \in 1..4 : Recorded[i].key = Kk
    /\ Recorded[1].value = <<"B">>
    /\ Recorded[2].value = <<"A">>
    /\ Recorded[4].value = <<"B">>
    /\ proc.seen_translations[Kk] = <<"B">>

\* the pair being recorded repeats a key recorded before
Repeats == RecordStep /\ CurrentPair[1] \in KeysOf(Recorded)
FirstOfCurrent == FirstValue(CurrentPair[1], Recorded)
CurrentLine == format_translation(CurrentPair[1], CurrentPair[2])

SameTripleTwice ==
    (Written /\ Len(Recorded) = 2 /\ Recorded[1] = Recorded[2])
       => proc.output_lines =
             <<HeaderPrefix \o Recorded[1].file,
               format_translation(Recorded[1].key, Recorded[1].value),
               DuplicatePrefix
                  \o format_translation(Recorded[1].key, Recorded[1].value),
               <<>> >>

EqualValueIsDuplicate ==
    (Repeats /\ CurrentPair[2] = FirstOfCurrent)
       => NewLines = <<DuplicatePrefix \o CurrentLine>>

\* C15: the same triple recorded twice gives one live line and one line
\* '# DUPLICATE: "key=value"'; any later occurrence whose value equals the
\* first-seen value adds that DUPLICATE line and nothing else.
C15_DuplicateAnnotation ==
    /\ []SameTripleTwice
    /\ [][EqualValueIsDuplicate]_vars

C15_Witness ==
    /\ Written
    /\ Len(Recorded) = 2
    /\ Recorded[1] = Recorded[2]
    /\ proc.output_lines[3] =
          DuplicatePrefix \o format_translation(Kk, <<"A">>)

\* line shows the text  key=value
Shows(line, k, v) ==
    \E i \in 1..Len(line) :
       SubSeq(line, i, i + Len(k) + Len(v)) = k \o <<"=">> \o v
IsComment(line) == line # <<>> /\ Head(line) = "#"

\* the lines added are a CONFLICT annotation of value v against value first
ConflictAnnotation(lines, k, v, first) ==
    /\ lines # <<>>
    /\ StartsWith(lines[1], ConflictPrefix)
    /\ Shows(lines[1], k, v)
    /\ \A i \in 1..Len(lines) : IsComment(lines[i])
    /\ \E i \in 1..Len(lines) :
          \E j \in 1..Len(lines[i]) :
             SubSeq(lines[i], j, j + Len(first) - 1) = first
    /\ \A i \in 1..Len(lines) : ~StartsWith(lines[i], DuplicatePrefix)

ComparedWithFirstSeen ==
    Repeats =>
       IF CurrentPair[2] = FirstOfCurrent
       THEN /\ Len(NewLines) = 1
            /\ StartsWith(NewLines[1], DuplicatePrefix)
       ELSE ConflictAnnotation(NewLines, CurrentPair[1], CurrentPair[2],
                               FirstOfCurrent)

\* C16: a later occurrence is compared with the value of the first occurrence
\* of its key, whatever occurred in between: a different value adds a
\* CONFLICT annotation showing it and the first value, an equal value adds a
\* DUPLICATE.
C16_ConflictAgainstFirstSeen == [][ComparedWithFirstSeen]_vars

C16_Witness ==
    /\ Written
    /\ Len(Recorded) = 3
    /\ \A i \in 1..3 : Recorded[i].key = Kk
    /\ Recorded[1].value = <<"A">>
    /\ Recorded[2].value = <<"B">>
    /\ Recorded[3].value = <<"B">>
    /\ proc.output_lines[5] =
          ConflictPrefix \o format_translation(Kk, <<"B">>)
    /\ proc.output_lines[6] =
          PreviousPrefix \o format_translation(Kk, <<"A">>)

\* the shapes of catalog lines, for the files and triples of the run
HeaderShape(line) ==
    \E f \in DOMAIN proc.directory : line = HeaderPrefix \o f
LiveShape(line) ==
    \E i \in 1..Len(Recorded) :
       line = format_translation(Recorded[i].key, Recorded[i].value)
DuplicateShape(line) ==
    \E i \in 1..Len(Recorded) :
       line = DuplicatePrefix
                 \o format_translation(Recorded[i].key, Recorded[i].value)
ConflictShape(line) ==
    \E i \in 1..Len(Recorded) :
       line = ConflictPrefix
                 \o format_translation(Recorded[i].key, Recorded[i].value)
PreviousShape(line) ==
    \E k \in KeysOf(Recorded) :
       line = PreviousPrefix \o format_translation(k, FirstValue(k, Recorded))
BlankShape(line) == line = <<>>

\* '# CONFLICT: "<key>=<value>" (previous: <firstValue>)'
ConflictWithPrevious(k, v, first) ==
    ConflictPrefix \o format_translation(k, v)
       \o <<SP, "(", "p", "r", "e", "v", "i", "o", "u", "s", ":", SP>>
       \o first \o <<")">>
ConflictWithPreviousShape(line) ==
    \E i \in 1..Len(Recorded) :
       line = ConflictWithPrevious(Recorded[i].key, Recorded[i].value,
                                   FirstValue(Recorded[i].key, Recorded))

\* the occurrences whose value differs from the first value of their key
ConflictingOccurrences ==
    {i \in 1..Len(Recorded) :
        Recorded[i].value # FirstValue(Recorded[i].key, Recorded)}

\* C17 as stated: every line has one of the five shapes, the CONFLICT shape
\* carrying the previous value in parentheses, and there is one such line per
\* conflicting occurrence.
C17_ConflictOneLine ==
    /\ \A i \in 1..Len(proc.output_lines) :
          LET line == proc.output_lines[i]
          IN  \/ HeaderShape(line)
              \/ LiveShape(line)
              \/ DuplicateShape(line)
              \/ ConflictWithPreviousShape(line)
              \/ BlankShape(line)
    /\ Cardinality({i \in 1..Len(proc.output_lines) :
                       ConflictWithPreviousShape(proc.output_lines[i])})
          = Cardinality(ConflictingOccurrences)

SixShapes ==
    \A i \in 1..Len(proc.output_lines) :
       LET line == proc.output_lines[i]
       IN  \/ HeaderShape(line)
           \/ LiveShape(line)
           \/ DuplicateShape(line)
           \/ ConflictShape(line)
           \/ PreviousShape(line)
           \/ BlankShape(line)

ConflictIsTwoLines ==
    (Repeats /\ CurrentPair[2] # FirstOfCurrent)
       => NewLines =
             <<ConflictPrefix \o CurrentLine,
               PreviousPrefix
                  \o format_translation(CurrentPair[1], FirstOfCurrent)>>

\* C17 amended: each conflicting occurrence is rendered as two lines,
\* '# CONFLICT: "<key>=<value>"' then '# PREVIOUS: "<key>=<firstValue>"', and
\* every line has one of six shapes: header, live, DUPLICATE, CONFLICT,
\* PREVIOUS, blank.
C17_ConflictTwoLines ==
    /\ []SixShapes
    /\ [][ConflictIsTwoLines]_vars

C17_Witness ==
    /\ Written
    /\ proc.output_lines =
          <<HeaderPrefix \o <<"B", ".", "l", "u", "a">>,
            format_translation(Kk, <<"B">>),
            <<>>,
            HeaderPrefix \o <<"a", ".", "l", "u", "a">>,
            ConflictPrefix \o format_translation(Kk, <<"A">>),
            PreviousPrefix \o format_translation(Kk, <<"B">>),
            <<>> >>

\* the lines of a text: what lies between its newline characters
SplitOnNewlines(t) ==
    LET breaks == {i \in 1..Len(t) : t[i] = NL}
        \* the position of the j-th newline; 0 before the text, Len + 1 after
        break(j) ==
            IF j = 0 THEN 0
            ELSE IF j > Cardinality(breaks) THEN Len(t) + 1
            ELSE CHOOSE i \in breaks :
                    Cardinality({m \in breaks : m < i}) = j - 1
    IN  [j \in 1..(Cardinality(breaks) + 1) |->
            SubSeq(t, break(j - 1) + 1, break(j) - 1)]

\* C18: no line of the catalog holds a newline character, so splitting the
\* written text on newlines gives back the sequence of lines.
C18_OneLinePerRecord ==
    Written =>
       /\ \A i \in 1..Len(proc.output_lines) :
             ~Has(proc.output_lines[i], {NL})
       /\ SplitOnNewlines(proc.file_text) = proc.output_lines

\* the pairs the scanner yields on file f of the directory
PairsOfFile(f) == extract_loc_strings(Content(proc.directory[f]))
\* the Lua files that yield at least one pair
Yielding ==
    {f \in DOMAIN proc.directory :
        is_lua(f) /\ proc.directory[f].readable /\ PairsOfFile(f) # <<>>}
\* those files by increasing name
InNameOrder ==
    CHOOSE fs \in Listings(Yielding) :
       \A i \in 1..Len(fs) : \A j \in 1..Len(fs) :
          i < j => str_less(fs[i], fs[j])

\* header, one line per pair in scanner order, blank line, file after file
RECURSIVE PlainGroups(_)
PlainGroups(fs) ==
    IF fs = <<>> THEN <<>>
    ELSE LET pairs == PairsOfFile(Head(fs))
         IN  <<HeaderPrefix \o Head(fs)>>
                \o [i \in 1..Len(pairs) |->
                       format_translation(pairs[i][1], pairs[i][2])]
                \o << <<>> >>
                \o PlainGroups(Tail(fs))

IsPrevious(line) == StartsWith(line, PreviousPrefix)
NotPrevious(line) == ~IsPrevious(line)
\* a record line without its DUPLICATE or CONFLICT marker
Unmarked(line) ==
    IF StartsWith(line, DuplicatePrefix)
    THEN SubSeq(line, Len(DuplicatePrefix) + 1, Len(line))
    ELSE IF StartsWith(line, ConflictPrefix)
    THEN SubSeq(line, Len(ConflictPrefix) + 1, Len(line))
    ELSE line
\* the catalog without the PREVIOUS lines and without the markers
PlainCatalog ==
    LET kept == SelectSeq(proc.output_lines, NotPrevious)
    IN  [i \in 1..Len(kept) |-> Unmarked(kept[i])]

\* C19: the catalog is one group per Lua file that yielded a pair, by
\* increasing file name; a group is the header '# <file>', one record per
\* pair of the file in scanner order, and a blank line; a PREVIOUS line only
\* follows the CONFLICT line of its record; nothing is written when no file
\* yields a pair.
C19_FileGroupedInNameOrder ==
    /\ Written =>
          /\ Yielding # {}
          /\ PlainCatalog = PlainGroups(InNameOrder)
          /\ \A i \in 1..Len(proc.output_lines) :
                IsPrevious(proc.output_lines[i])
                   => /\ i > 1
                      /\ StartsWith(proc.output_lines[i - 1], ConflictPrefix)
    /\ proc.pc = "returned" => Yielding = {}

C19_Witness ==
    /\ Written
    /\ proc.listing = <<<<"a", ".", "l", "u", "a">>, <<"B", ".", "l", "u", "a">>>>
    /\ Len(PairsOfFile(<<"a", ".", "l", "u", "a">>)) = 3
    /\ Len(PairsOfFile(<<"B", ".", "l", "u", "a">>)) = 2
    /\ proc.output_lines[1] = HeaderPrefix \o <<"B", ".", "l", "u", "a">>
    /\ proc.output_lines[5] = HeaderPrefix \o <<"a", ".", "l", "u", "a">>

\* how many lines of the catalog are live, DUPLICATE or CONFLICT lines
LiveCount ==
    Cardinality({i \in 1..Len(proc.output_lines) :
                    IsLive(proc.output_lines[i])})
DuplicateCount ==
    Cardinality({i \in 1..Len(proc.output_lines) :
                    StartsWith(proc.output_lines[i], DuplicatePrefix)})
ConflictCount ==
    Cardinality({i \in 1..Len(proc.output_lines) :
                    StartsWith(proc.output_lines[i], ConflictPrefix)})

\* how many pairs the scanner yields on the files fs
RECURSIVE PairCount(_)
PairCount(fs) ==
    IF fs = <<>> THEN 0
    ELSE Len(PairsOfFile(Head(fs))) + PairCount(Tail(fs))

\* C20: live lines, DUPLICATE annotations and CONFLICT annotations together
\* are as many as the pairs recorded, which in the end are all the pairs the
\* scanner yielded on the Lua files; live lines are as many as distinct keys.
C20_NoPairDropped ==
    /\ LiveCount + DuplicateCount + ConflictCount = Len(Recorded)
    /\ LiveCount = Cardinality(KeysOf(Recorded))
    /\ Written => Len(Recorded) = PairCount(InNameOrder)

C20_Witness ==
    /\ Written
    /\ PairCount(InNameOrder) = 5
    /\ LiveCount = 2
    /\ DuplicateCount = 1
    /\ ConflictCount = 2

\* the text holds the letters LOC somewhere
HasLOC(t) == \E i \in 1..(Len(t) - 2) : SubSeq(t, i, i + 2) = LOC
\* the files whose text holds no LOC
WithoutLOC ==
    {f \in DOMAIN proc.directory :
        proc.directory[f].readable /\ ~HasLOC(Content(proc.directory[f]))}
ScanningOver == proc.pc \notin {"list", "scan"}
\* no file of the directory yields a pair
NoneYields ==
    \A f \in DOMAIN proc.directory :
       (is_lua(f) /\ proc.directory[f].readable) => PairsOfFile(f) = <<>>

\* C21: a document without LOC yields no pair and gets no entry; when no
\* document yields a pair no entry is left once all files are scanned, and
\* a run without entries ends in the early return, with no catalog line and
\* nothing written.
C21_EmptyInput ==
    /\ (proc.pc = "scan" /\ proc.sorted_files # <<>>
           /\ Head(proc.sorted_files) \in WithoutLOC)
          => PairsOfFile(Head(proc.sorted_files)) = <<>>
    /\ \A g \in 1..Len(proc.translations_by_file) :
          HasLOC(Content(proc.directory[
                            proc.translations_by_file[g].filename]))
    /\ (proc.pc = "scan" /\ proc.sorted_files = <<>> /\ NoneYields)
          => proc.translations_by_file = <<>>
    /\ (ScanningOver /\ proc.translations_by_file = <<>>)
          => /\ proc.pc = "returned"
             /\ proc.output_lines = <<>>
             /\ proc.file_text = <<>>

C21_Witness ==
    /\ proc.pc = "returned"
    /\ Cardinality(WithoutLOC) = 2
    /\ \E f \in WithoutLOC : Content(proc.directory[f]) = NoCallText
    /\ \E f \in WithoutLOC : Content(proc.directory[f]) = <<>>
    /\ \A f \in WithoutLOC : is_lua(f)

\* directory d without the entries that cannot be read
ReadablePart(d) == [f \in {g \in DOMAIN d : d[g].readable} |-> d[f]]

\* the catalog of a directory d whose files can all be read
PairsIn(d, f) == extract_loc_strings(Content(d[f]))
GroupsIn(d) ==
    LET pairs == [f \in DOMAIN d |-> PairsIn(d, f)]
        yielding == {f \in DOMAIN d : is_lua(f) /\ pairs[f] # <<>>}
        order == CHOOSE fs \in Listings(yielding) :
                    \A i \in 1..Len(fs) : \A j \in 1..Len(fs) :
                       i < j => str_less(fs[i], fs[j])
    IN  [i \in 1..Len(order) |->
            [filename |-> order[i], translations |-> pairs[order[i]]]]

\* the lines of the i-th triple of ts
RecordOf(ts, i) ==
    LET k == ts[i].key
        v == ts[i].value
        before == SubSeq(ts, 1, i - 1)
    IN  IF k \notin KeysOf(before) THEN <<format_translation(k, v)>>
        ELSE IF FirstValue(k, before) = v
        THEN <<DuplicatePrefix \o format_translation(k, v)>>
        ELSE <<ConflictPrefix \o format_translation(k, v),
               PreviousPrefix
                  \o format_translation(k, FirstValue(k, before))>>

RECURSIVE RecordsOf(_, _, _)
RecordsOf(ts, from, to) ==
    IF from > to THEN <<>>
    ELSE RecordOf(ts, from) \o RecordsOf(ts, from + 1, to)

\* the first g groups, ts being the triples of all groups
RECURSIVE CatalogOfGroups(_, _, _)
CatalogOfGroups(groups, ts, g) ==
    IF g = 0 THEN <<>>
    ELSE LET done == Len(TriplesOf(groups, g - 1))
         IN  CatalogOfGroups(groups, ts, g - 1)
                \o <<HeaderPrefix \o groups[g].filename>>
                \o RecordsOf(ts, done + 1,
                             done + Len(groups[g].translations))
                \o << <<>> >>

CatalogOf(d) ==
    LET groups == GroupsIn(d)
    IN  CatalogOfGroups(groups, TriplesOf(groups, Len(groups)), Len(groups))

Unreadable == {f \in DOMAIN proc.directory : ~proc.directory[f].readable}

\* C22: a file that cannot be read ends no run, and the catalog is the
\* catalog of the directory without that file: the files before and after it
\* are scanned and recorded as if it were absent.
C22_FailureContained ==
    /\ proc.pc \in {"idle", "list", "scan", "group", "records", "written",
                    "returned"}
    /\ Written =>
          proc.output_lines = CatalogOf(ReadablePart(proc.directory))
    /\ proc.pc = "returned" => CatalogOf(ReadablePart(proc.directory)) = <<>>

C22_Witness ==
    /\ Written
    /\ proc.sorted_files = <<>>
    /\ Unreadable = {<<"B", ".", "l", "u", "a">>}
    /\ proc.output_lines =
          <<HeaderPrefix \o <<"a", ".", "l", "u", "a">>,
            format_translation(Kk, <<"A">>),
            ConflictPrefix \o format_translation(Kk, <<"B">>),
            PreviousPrefix \o format_translation(Kk, <<"A">>),
            DuplicatePrefix \o format_translation(Kk, <<"A">>),
            <<>> >>

\* ---------------------------------------------------------------------
\* Termination of the scanner (lines 33-66 and 86-225)

\* the cursor of extract_loc_strings has not passed the end of the text
CursorWithinText == pos <= Len(text)

\* an iteration of the loop of line 33 ends with a greater cursor: the key is
\* rejected (line 48), or the value is back from extract_complete_value and
\* recorded or skipped (lines 62, 64)
OuterAdvances == pc' = "search" => pos' > pos

\* a step that stays in the same loop of extract_complete_value advances its
\* cursor
InnerAdvances ==
    (pc = "value" /\ pc' = "value" /\ frame'.pc = frame.pc)
        => frame'.pos > frame.pos

\* no step of extract_complete_value moves its cursor back
InnerNeverBack ==
    (pc = "value" /\ pc' = "value") => frame'.pos >= frame.pos

\* the nested loop ranks above the loop it returns to, which ranks above the
\* return
LoopRank(f) ==
    CASE f.pc = "single" -> 2
      [] f.pc = "main" -> 1
      [] OTHER -> 0

InnerMeasure == 3 * (Len(text) + 1 - frame.pos) + LoopRank(frame)

OuterWeight == 3 * Len(text) + 8

\* a natural number that every step of the scanner decreases
Variant ==
    CASE pc = "done" -> 0
      [] pc = "search" -> 1 + (Len(text) + 2 - pos) * OuterWeight
      [] OTHER -> 2 + (Len(text) + 1 - pos) * OuterWeight + InnerMeasure

\* the scanner is at a statement from which the code goes on, or has returned
AtAStatement ==
    /\ pc \in {"search", "value", "done"}
    /\ pc = "value" => frame.pc \in {"main", "single", "ret"}

CursorsBounded ==
    /\ pos >= 0
    /\ pos <= Len(text) + 1
    /\ pc = "value" => /\ frame.pos >= value_start
                       /\ frame.pos <= Len(text)
                       /\ value_start > pos

\* C23, as stated: the cursor of extract_loc_strings strictly increases on
\* every iteration of the outer loop, every iteration of the two loops of
\* extract_complete_value advances its cursor or leaves the loop, and the
\* cursor of extract_loc_strings never exceeds the length of the document.
C23_CursorNeverPastEnd ==
    /\ []CursorWithinText
    /\ [][OuterAdvances /\ InnerAdvances]_vars

\* C23, amended: the cursors advance as stated and the scan ends (every step
\* decreases a natural number), the cursor of extract_complete_value never
\* exceeds the length of the document, and the cursor of extract_loc_strings
\* never exceeds the length plus one: it is one past the end after a call
\* site whose '=' is the last character of the document (line 64).
C23_ScannerTerminates ==
    /\ [](AtAStatement /\ CursorsBounded /\ Variant >= 0)
    /\ [][/\ OuterAdvances
          /\ InnerAdvances
          /\ InnerNeverBack
          /\ Variant' < Variant]_vars

\* the scan of a document that ends with the '=' of a call site has ended
\* with the cursor one past the end
C23_Witness ==
    /\ Done
    /\ value_start = Len(text)
    /\ pos = Len(text) + 1
    /\ key = Kk

\* ---------------------------------------------------------------------
\* Order and separation of the yielded call sites (lines 32-66)

\* loc_match.start() of line 35 as an offset of the text: where the leftmost
\* call site at or after p begins, or -1
RECURSIVE loc_start(_, _)
loc_start(t, p) ==
    IF p >= Len(t) THEN -1
    ELSE IF loc_match_end(t, p) # -1 THEN p
    ELSE loc_start(t, p + 1)

\* the loop of lines 33-64 from cursor p, keeping for every yielded pair the
\* offsets of its call site: where it starts, where its value starts, where
\* extract_complete_value stopped reading and where the search resumes
RECURSIVE call_sites_from(_, _)
call_sites_from(t, p) ==
    LET after_quote == loc_search(t, p)
    IN  IF p >= Len(t) \/ after_quote = -1 THEN <<>>
        ELSE LET e == key_match(t, after_quote)
             IN  IF e = -1 THEN call_sites_from(t, after_quote)
                 ELSE LET f == run_frame(t, InitFrame(e + 1))
                          r == record_value(<<>>, key_of(t, after_quote, e),
                                            e + 1, finish_value(f))
                          site == [start |-> loc_start(t, p),
                                   value_start |-> e + 1,
                                   read_to |-> f.pos,
                                   next |-> r.pos,
                                   pair |-> r.results]
                      IN  IF r.results # <<>>
                          THEN <<site>> \o call_sites_from(t, r.pos)
                          ELSE call_sites_from(t, r.pos)

YieldedSites == call_sites_from(text, 0)

\* the step of lines 60-62 that appends a pair
Yields == pc = "value" /\ results' # results

\* the pairs returned are the pairs of the yielded call sites, in their order
SitesAreTheYields ==
    Done => /\ Len(YieldedSites) = Len(results)
            /\ \A i \in 1..Len(results) :
                  YieldedSites[i].pair = <<results[i]>>

InSourceOrder ==
    Done => \A i, j \in 1..Len(YieldedSites) :
               i < j => YieldedSites[i].start < YieldedSites[j].start

\* a yielded call site lies between its start and the offset the search
\* resumes at, and the next yielded call site starts at or after that offset
NoOverlap ==
    Done => /\ \A i \in 1..Len(YieldedSites) :
                  /\ YieldedSites[i].start < YieldedSites[i].value_start
                  /\ YieldedSites[i].value_start <= YieldedSites[i].read_to
                  /\ YieldedSites[i].read_to <= YieldedSites[i].next
            /\ \A i, j \in 1..Len(YieldedSites) :
                  i < j => YieldedSites[i].next <= YieldedSites[j].start

\* the value of a yielded pair is read from the characters before the offset
\* the search resumes at: the document cut at that offset gives the same value
ValueFromOwnSpan ==
    Done => \A i \in 1..Len(YieldedSites) :
               LET s == YieldedSites[i]
                   r == extract_complete_value(Slice(text, 0, s.next),
                                               s.value_start)
               IN  /\ ~r.is_none
                   /\ r.value = results[i][2]

\* when a pair is yielded the search resumes behind its call site and behind
\* every character extract_complete_value has read
ResumePastRead ==
    Yields => /\ loc_start(text, pos) >= pos
              /\ loc_start(text, pos) < value_start
              /\ pos' > value_start
              /\ pos' >= frame.pos

\* C24: the pairs are yielded in source order, the start offsets of their
\* call sites are strictly increasing, and after a pair is yielded the search
\* resumes past every character read for it, so the spans of two yielded
\* pairs share no character of the document.
C24_SourceOrderNoOverlap ==
    /\ [](SitesAreTheYields /\ InSourceOrder /\ NoOverlap /\ ValueFromOwnSpan)
    /\ [][ResumePastRead]_vars

\* two different pairs have been yielded from two call sites of one document
C24_Witness ==
    /\ Done
    /\ Len(results) = 2
    /\ results[1] # results[2]
    /\ Len(YieldedSites) = 2
    /\ YieldedSites[1].read_to > YieldedSites[1].value_start + 1

\* ---------------------------------------------------------------------
\* Idempotence of clean_value (lines 240-269)

\* v is left as it is by clean_value
FixedPoint(v) == clean_value(v) = v

\* C25: clean_value(clean_value(v)) = clean_value(v) for every string v: the
\* value clean_value returns is a fixed point of clean_value.
C25_CleanValueIdempotent ==
    Cleaned => /\ FixedPoint(cv.result)
               /\ clean_value(clean_value(cv.arg)) = clean_value(cv.arg)

\* clean_value has returned a value of two paragraphs with a rewritten
\* placeholder, which differs from its argument
C25_Witness ==
    /\ Cleaned
    /\ cv.arg = <<"^", "1", NL, "A">>
    /\ cv.result = <<"{", "1", "}", BS, "n", BS, "n", "A">>
    /\ FixedPoint(cv.result)

====
